---------------------------- MODULE Spec2Model ----------------------------
(***************************************************************************)
(* Model of app.py: a password-gated Streamlit dashboard over a DuckDB     *)
(* table "compras".  One script run (top to bottom) is one action; the     *)
(* SQL text the script builds with f-strings is kept as text and handed    *)
(* to a model of the engine's lexer, parser, binder and evaluator, so that *)
(* what a filter value does to a query is decided by the text it produces. *)
(*                                                                         *)
(* A text is a sequence of units.  A unit is one character, except that    *)
(* the identifiers and keywords the script itself writes (LOWER, LIKE,     *)
(* RubroN1, ...) are kept as one unit each.  Text that comes from a widget *)
(* or from the data is always one character per unit.                      *)
(***************************************************************************)
EXTENDS Integers, Sequences, FiniteSets, TLC

(***************************************************************************)
(* Characters                                                              *)
(***************************************************************************)
UpperChars == <<"A","B","C","D","E","F","G","H","I","J","K","L","M",
                "N","O","P","Q","R","S","T","U","V","W","X","Y","Z",
                "Á","É","Í","Ó","Ú","Ñ">>
LowerChars == <<"a","b","c","d","e","f","g","h","i","j","k","l","m",
                "n","o","p","q","r","s","t","u","v","w","x","y","z",
                "á","é","í","ó","ú","ñ">>

\* str.lower() / LOWER() on one character
LowerChar(c) ==
    IF \E i \in 1..Len(UpperChars) : UpperChars[i] = c
    THEN LowerChars[CHOOSE i \in 1..Len(UpperChars) : UpperChars[i] = c]
    ELSE c

\* str.lower() / LOWER() on a text
Lower(s) == [i \in 1..Len(s) |-> LowerChar(s[i])]

DigitChars == <<"0","1","2","3","4","5","6","7","8","9">>
IsDigit(c) == \E i \in 1..10 : DigitChars[i] = c
DigitVal(c) == (CHOOSE i \in 1..10 : DigitChars[i] = c) - 1

AllDigits(s) == Len(s) > 0 /\ \A i \in 1..Len(s) : IsDigit(s[i])

RECURSIVE DecVal(_)
\* the value of a text of decimal digits
DecVal(s) == IF s = <<>> THEN 0
             ELSE 10 * DecVal(SubSeq(s, 1, Len(s) - 1)) + DigitVal(s[Len(s)])

(***************************************************************************)
(* SQL values: NULL, VARCHAR, DATE, DOUBLE, BOOLEAN                        *)
(***************************************************************************)
Null == [t |-> "null"]
Str(s) == [t |-> "str", v |-> s]
Dt(y, m, d) == [t |-> "date", v |-> <<y, m, d>>]
Num(n) == [t |-> "num", v |-> n]
Bool(b) == [t |-> "bool", v |-> b]
IsNull(x) == x.t = "null"

DaysInMonth(y, m) ==
    IF m \in {4, 6, 9, 11} THEN 30
    ELSE IF m = 2 THEN (IF (y % 4 = 0 /\ y % 100 # 0) \/ y % 400 = 0 THEN 29 ELSE 28)
    ELSE 31

\* the engine's VARCHAR -> DATE conversion of an ISO text yyyy-mm-dd;
\* Null when the text is no date
ParseDate(s) ==
    IF /\ Len(s) = 10
       /\ s[5] = "-" /\ s[8] = "-"
       /\ AllDigits(SubSeq(s, 1, 4)) /\ AllDigits(SubSeq(s, 6, 7))
       /\ AllDigits(SubSeq(s, 9, 10))
    THEN LET y == DecVal(SubSeq(s, 1, 4))
             m == DecVal(SubSeq(s, 6, 7))
             d == DecVal(SubSeq(s, 9, 10))
         IN  IF m \in 1..12 /\ d >= 1 /\ d <= DaysInMonth(y, m)
             THEN Dt(y, m, d) ELSE Null
    ELSE Null

\* TRY_CAST(x AS DATE): NULL instead of an error
TryCastDate(x) == IF x.t = "str" THEN ParseDate(x.v) ELSE Null

\* a variant that turns a text that is no number into 0 where NULL is due
TryCastDoubleZero(x) ==
    IF x.t = "str" THEN (IF AllDigits(x.v) THEN Num(DecVal(x.v)) ELSE Num(0)) ELSE Null

\* TRY_CAST(x AS DOUBLE): NULL instead of an error (amounts are whole pesos)
TryCastDouble(x) ==
    IF x.t = "str" /\ AllDigits(x.v) THEN Num(DecVal(x.v)) ELSE Null

\* str(datetime.date): zero-padded ISO text, as the f-string interpolates it
Pad(n, w) == [i \in 1..w |-> DigitChars[((n \div (10 ^ (w - i))) % 10) + 1]]
FormatDate(d) == Pad(d[1], 4) \o <<"-">> \o Pad(d[2], 2) \o <<"-">> \o Pad(d[3], 2)

\* the order of DATE values, on <<y, m, d>>
DateLeq(a, b) ==
    \/ a[1] < b[1]
    \/ a[1] = b[1] /\ a[2] < b[2]
    \/ a[1] = b[1] /\ a[2] = b[2] /\ a[3] <= b[3]

RECURSIVE Like(_, _)
\* s LIKE p: % is any run of characters, _ any one character
Like(s, p) ==
    IF p = <<>> THEN s = <<>>
    ELSE IF Head(p) = "%"
         THEN Like(s, Tail(p)) \/ (s # <<>> /\ Like(Tail(s), p))
         ELSE /\ s # <<>>
              /\ (Head(p) = "_" \/ Head(p) = Head(s))
              /\ Like(Tail(s), Tail(p))

(***************************************************************************)
(* The engine's reading of one WHERE line.  The script puts where_sql on   *)
(* one line of each query ("WHERE {where_sql}", lines 248, 281, 320, ...), *)
(* so a "--" comment runs to the end of that line and what follows the     *)
(* line (GROUP BY, ORDER BY, LIMIT or the end of the query) is the         *)
(* script's own text.  A string literal still open at the end of the line  *)
(* makes the query a syntax error: the lines that follow either hold no    *)
(* quote or leave text after the closing one that is no SQL.               *)
(***************************************************************************)
Columns == {"codigoOC", "FechaEnvioOC", "Proveedor", "ProveedorRUT",
            "RegionProveedor", "RegionUnidadCompra", "ONUProducto", "RubroN1",
            "MontoTotalOC_CLP", "FechaEnvioOC_parsed"}

ColumnType(c) == IF c = "FechaEnvioOC_parsed" THEN "date" ELSE "str"

Punct == {"'", "(", ")", "%", " ", "-", "=", ">", "<", ".", ",", ";", "*", "/"}
IsWordUnit(u) == u \notin Punct

KwOr    == {<<"OR">>, <<"o","r">>}
KwAnd   == {<<"AND">>, <<"a","n","d">>}
KwLike  == {<<"LIKE">>, <<"l","i","k","e">>}
KwLower == {<<"LOWER">>, <<"l","o","w","e","r">>}
KwDate  == {<<"DATE">>, <<"d","a","t","e">>}
KwIs    == {<<"IS">>, <<"i","s">>}
KwNot   == {<<"NOT">>, <<"n","o","t">>}
KwNull  == {<<"NULL">>, <<"n","u","l","l">>}

RECURSIVE SkipWs(_, _)
\* the first position from i on that is neither blank nor inside a comment
SkipWs(t, i) ==
    IF i > Len(t) THEN i
    ELSE IF t[i] = " " THEN SkipWs(t, i + 1)
    ELSE IF t[i] = "-" /\ i < Len(t) /\ t[i + 1] = "-" THEN Len(t) + 1
    ELSE i

RECURSIVE ScanStr(_, _, _)
\* the string literal whose opening quote precedes position j;
\* two quotes in a row stand for one quote inside the literal
ScanStr(t, j, acc) ==
    IF j > Len(t) THEN [k |-> "bad", n |-> j]
    ELSE IF t[j] = "'"
         THEN IF j < Len(t) /\ t[j + 1] = "'"
              THEN ScanStr(t, j + 2, Append(acc, "'"))
              ELSE [k |-> "str", v |-> acc, n |-> j + 1]
         ELSE ScanStr(t, j + 1, Append(acc, t[j]))

RECURSIVE ScanWord(_, _, _)
\* the identifier, keyword or number that starts at j; case is folded
ScanWord(t, j, acc) ==
    IF j <= Len(t) /\ IsWordUnit(t[j])
    THEN ScanWord(t, j + 1, Append(acc, LowerChar(t[j])))
    ELSE [k |-> "word", v |-> acc, n |-> j]

\* the token that starts at or after position i
Tok(t, i) ==
    LET j == SkipWs(t, i)
    IN  IF j > Len(t) THEN [k |-> "eof", n |-> j]
        ELSE IF t[j] = "'" THEN ScanStr(t, j + 1, <<>>)
        ELSE IF IsWordUnit(t[j]) THEN ScanWord(t, j, <<>>)
        ELSE IF t[j] \in {">", "<"} /\ j < Len(t) /\ t[j + 1] = "="
             THEN [k |-> "sym", v |-> (IF t[j] = ">" THEN ">=" ELSE "<="), n |-> j + 2]
        ELSE [k |-> "sym", v |-> t[j], n |-> j + 1]

RECURSIVE Tokens(_, _)
\* the tokens of the line from position i on; the last one is "eof", or "bad"
\* when a string literal is never closed
Tokens(t, i) ==
    LET tk == Tok(t, i)
    IN  IF tk.k \in {"eof", "bad"} THEN <<tk>> ELSE <<tk>> \o Tokens(t, tk.n)

IsSym(tk, s) == tk.k = "sym" /\ tk.v = s
IsKw(tk, kw) == tk.k = "word" /\ tk.v \in kw

Fail == [ok |-> FALSE]
Ok(e, i) == [ok |-> TRUE, e |-> e, i |-> i]

\* a parenthesised expression r must be followed by the closing parenthesis
Closed(ts, r, lower) ==
    IF r.ok /\ IsSym(ts[r.i], ")")
    THEN Ok(IF lower THEN [k |-> "lower", a |-> r.e] ELSE r.e, r.i + 1)
    ELSE Fail

\* the node of a binary operator whose right operand was parsed as r
Binary(k, op, a, r) ==
    IF r.ok THEN Ok([k |-> k, op |-> op, a |-> a, b |-> r.e], r.i) ELSE Fail

RECURSIVE ParseOr(_, _), OrRest(_, _), ParseAnd(_, _), AndRest(_, _),
          ParsePred(_, _), PredRest(_, _), ParseOperand(_, _)

\* operand: ( expr ) | LOWER ( expr ) | DATE 'text' | 'text' | number | column
ParseOperand(ts, i) ==
    IF ts[i].k = "str" THEN Ok([k |-> "lit", val |-> Str(ts[i].v)], i + 1)
    ELSE IF IsSym(ts[i], "(") THEN Closed(ts, ParseOr(ts, i + 1), FALSE)
    ELSE IF IsKw(ts[i], KwLower)
    THEN IF IsSym(ts[i + 1], "(") THEN Closed(ts, ParseOr(ts, i + 2), TRUE)
         ELSE Fail
    ELSE IF IsKw(ts[i], KwDate)
    THEN IF ts[i + 1].k = "str"
         THEN Ok([k |-> "datelit", text |-> ts[i + 1].v], i + 2)
         ELSE Fail
    ELSE IF ts[i].k = "word" /\ AllDigits(ts[i].v)
    THEN Ok([k |-> "lit", val |-> Num(DecVal(ts[i].v))], i + 1)
    ELSE IF ts[i].k = "word" /\ ts[i].v \notin (KwOr \cup KwAnd \cup KwLike \cup KwIs
                                                 \cup KwNot \cup KwNull)
    THEN Ok([k |-> "col", name |-> ts[i].v], i + 1)
    ELSE Fail

\* predicate: operand [ (= | >= | <= | > | <) operand | LIKE operand | IS NOT NULL ]
PredRest(ts, l) ==
    IF ~l.ok THEN Fail
    ELSE IF ts[l.i].k = "sym" /\ ts[l.i].v \in {"=", ">=", "<=", ">", "<"}
    THEN Binary("cmp", ts[l.i].v, l.e, ParseOperand(ts, l.i + 1))
    ELSE IF IsKw(ts[l.i], KwLike)
    THEN Binary("like", "like", l.e, ParseOperand(ts, l.i + 1))
    ELSE IF IsKw(ts[l.i], KwIs)
    THEN IF IsKw(ts[l.i + 1], KwNot) /\ IsKw(ts[l.i + 2], KwNull)
         THEN Ok([k |-> "notnull", a |-> l.e], l.i + 3)
         ELSE Fail
    ELSE l

ParsePred(ts, i) == PredRest(ts, ParseOperand(ts, i))

\* AND binds tighter than OR; both associate to the left
AndRest(ts, l) ==
    IF ~l.ok THEN Fail
    ELSE IF IsKw(ts[l.i], KwAnd)
    THEN AndRest(ts, Binary("and", "and", l.e, ParsePred(ts, l.i + 1)))
    ELSE l

ParseAnd(ts, i) == AndRest(ts, ParsePred(ts, i))

OrRest(ts, l) ==
    IF ~l.ok THEN Fail
    ELSE IF IsKw(ts[l.i], KwOr)
    THEN OrRest(ts, Binary("or", "or", l.e, ParseAnd(ts, l.i + 1)))
    ELSE l

ParseOr(ts, i) == OrRest(ts, ParseAnd(ts, i))

\* the whole line must be one expression
WholeLine(ts, r) == IF r.ok /\ ts[r.i].k = "eof" THEN r ELSE Fail

\* the WHERE line as an expression
ParseWhere(t) == LET ts == Tokens(t, 1) IN WholeLine(ts, ParseOr(ts, 1))

RECURSIVE Bind(_)
\* the binder: the type of an expression, "err" when it has none
\* (unknown column, operands of different types, a DATE literal that is no date)
Bind(e) ==
    CASE e.k = "lit" -> e.val.t
      [] e.k = "datelit" -> IF IsNull(ParseDate(e.text)) THEN "err" ELSE "date"
      [] e.k = "col" ->
            IF Len(e.name) = 1 /\ e.name[1] \in Columns
            THEN ColumnType(e.name[1]) ELSE "err"
      [] e.k = "lower" -> IF Bind(e.a) = "str" THEN "str" ELSE "err"
      [] e.k = "like" ->
            IF Bind(e.a) = "str" /\ Bind(e.b) = "str" THEN "bool" ELSE "err"
      [] e.k = "cmp" ->
            LET ta == Bind(e.a)
            IN  IF ta \in {"str", "date", "num"} /\ Bind(e.b) = ta
                THEN "bool" ELSE "err"
      [] e.k = "notnull" -> IF Bind(e.a) = "err" THEN "err" ELSE "bool"
      [] e.k \in {"and", "or"} ->
            IF Bind(e.a) = "bool" /\ Bind(e.b) = "bool" THEN "bool" ELSE "err"

\* the order of two non-null values of one type
Leq(a, b) ==
    CASE a.t = "date" -> DateLeq(a.v, b.v)
      [] a.t = "num" -> a.v <= b.v
      [] OTHER -> a.v = b.v

Compare(op, a, b) ==
    CASE op = "=" -> a.v = b.v
      [] op = "<=" -> Leq(a, b)
      [] op = ">=" -> Leq(b, a)
      [] op = "<" -> Leq(a, b) /\ a.v # b.v
      [] op = ">" -> Leq(b, a) /\ a.v # b.v

\* three-valued AND and OR
And3(a, b) ==
    IF (a.t = "bool" /\ ~a.v) \/ (b.t = "bool" /\ ~b.v) THEN Bool(FALSE)
    ELSE IF IsNull(a) \/ IsNull(b) THEN Null ELSE Bool(TRUE)

Or3(a, b) ==
    IF (a.t = "bool" /\ a.v) \/ (b.t = "bool" /\ b.v) THEN Bool(TRUE)
    ELSE IF IsNull(a) \/ IsNull(b) THEN Null ELSE Bool(FALSE)

RECURSIVE Eval(_, _)
\* the value of a bound expression on one row
Eval(e, row) ==
    CASE e.k = "lit" -> e.val
      [] e.k = "datelit" -> ParseDate(e.text)
      [] e.k = "col" -> row[e.name[1]]
      [] e.k = "lower" ->
            LET a == Eval(e.a, row) IN IF IsNull(a) THEN Null ELSE Str(Lower(a.v))
      [] e.k = "like" ->
            LET a == Eval(e.a, row)
                b == Eval(e.b, row)
            IN  IF IsNull(a) \/ IsNull(b) THEN Null ELSE Bool(Like(a.v, b.v))
      [] e.k = "cmp" ->
            LET a == Eval(e.a, row)
                b == Eval(e.b, row)
            IN  IF IsNull(a) \/ IsNull(b) THEN Null ELSE Bool(Compare(e.op, a, b))
      [] e.k = "notnull" -> Bool(~IsNull(Eval(e.a, row)))
      [] e.k = "and" -> And3(Eval(e.a, row), Eval(e.b, row))
      [] e.k = "or" -> Or3(Eval(e.a, row), Eval(e.b, row))

\* a row passes WHERE only when the expression is TRUE (not FALSE, not NULL)
Passes(e, row) == LET v == Eval(e, row) IN v.t = "bool" /\ v.v

(***************************************************************************)
(* The table "compras" and the queries of the script                       *)
(***************************************************************************)
\* read_csv_auto: an empty field is NULL, any other field its text
Field(text) == IF text = <<>> THEN Null ELSE Str(text)

\* CREATE TABLE compras AS SELECT * FROM read_csv_auto(...), then
\* ALTER TABLE ... ADD COLUMN FechaEnvioOC_parsed and the UPDATE that fills it
LoadTable(csv) ==
    [i \in 1..Len(csv) |->
        [c \in Columns |->
            IF c = "FechaEnvioOC_parsed" THEN TryCastDate(Field(csv[i].FechaEnvioOC))
            ELSE Field(csv[i][c])]]

\* the rows of T a parsed WHERE line selects, or the error the engine raises
Selected(T, p) ==
    IF ~p.ok THEN [ok |-> FALSE, error |-> "ParserException"]
    ELSE IF Bind(p.e) # "bool" THEN [ok |-> FALSE, error |-> "BinderException"]
    ELSE [ok |-> TRUE, rows |-> {i \in 1..Len(T) : Passes(p.e, T[i])}]

\* ... FROM compras WHERE line
Select(T, line) == Selected(T, ParseWhere(line))

QueryError(q) == [status |-> "error", error |-> q.error]

Monto(T, i) == TryCastDouble(T[i].MontoTotalOC_CLP)

RECURSIVE SumOver(_, _)
SumOver(T, S) ==
    IF S = {} THEN 0
    ELSE LET i == CHOOSE j \in S : TRUE IN Monto(T, i).v + SumOver(T, S \ {i})

\* COUNT(*)
CountStar(S) == Cardinality(S)

\* COUNT(DISTINCT col): NULLs are not counted
CountDistinct(T, S, col) ==
    Cardinality({T[i][col].v : i \in {j \in S : ~IsNull(T[j][col])}})

\* SUM(TRY_CAST(MontoTotalOC_CLP AS DOUBLE)): NULL amounts are skipped,
\* and the sum of no amount at all is NULL
SumMonto(T, S) ==
    LET P == {i \in S : ~IsNull(Monto(T, i))}
    IN  IF P = {} THEN Null ELSE Num(SumOver(T, P))

\* AVG(TRY_CAST(MontoTotalOC_CLP AS DOUBLE)) as the fraction sum / count over
\* the non-NULL amounts; NULL when there is none
AvgMonto(T, S) ==
    LET P == {i \in S : ~IsNull(Monto(T, i))}
    IN  IF P = {} THEN Null
        ELSE [t |-> "avg", num |-> SumOver(T, P), den |-> Cardinality(P)]

\* the grouping key of each row of S: a column, or the month of the parsed date
ColumnOf(T, S, col) == [i \in S |-> T[i][col]]

\* DATE_TRUNC('month', FechaEnvioOC_parsed)
DateTruncMonth(x) == IF IsNull(x) THEN Null ELSE Dt(x.v[1], x.v[2], 1)
MesOf(T, S) == [i \in S |-> DateTruncMonth(T[i].FechaEnvioOC_parsed)]

\* GROUP BY: one group per distinct key, NULL being a key of its own
Groups(S, key) ==
    {[key |-> k, rows |-> {i \in S : key[i] = k}] : k \in {key[i] : i \in S}}

FirstRow(S) == CHOOSE i \in S : \A j \in S : i <= j

RankLeq(a, b) ==
    \/ a[1] < b[1]
    \/ a[1] = b[1] /\ a[2] < b[2]
    \/ a[1] = b[1] /\ a[2] = b[2] /\ a[3] <= b[3]

RECURSIVE SortRows(_)
\* ORDER BY: the rows in ascending ord = <<nulls last, sort value, first row>>;
\* rows that tie on the sort value come out in table order, one of the orders
\* the engine may produce
SortRows(R) ==
    IF R = {} THEN <<>>
    ELSE LET r == CHOOSE c \in R : \A o \in R : RankLeq(c.ord, o.ord)
         IN  <<r>> \o SortRows(R \ {r})

\* the sort key is no column of the result
WithoutOrd(rows) ==
    [n \in 1..Len(rows) |-> [f \in (DOMAIN rows[n]) \ {"ord"} |-> rows[n][f]]]

\* ORDER BY n DESC on a count
DescCount(n, first) == <<0, 0 - n, first>>
\* ORDER BY x DESC on a nullable number (NULLS LAST)
DescNum(x, first) == IF IsNull(x) THEN <<1, 0, first>> ELSE <<0, 0 - x.v, first>>
DateOrd(d) == d[1] * 10000 + d[2] * 100 + d[3]
\* ORDER BY d on a nullable date, ascending (NULLS LAST)
AscDate(x, first) == IF IsNull(x) THEN <<1, 0, first>> ELSE <<0, DateOrd(x.v), first>>
\* ORDER BY d DESC on a nullable date (NULLS LAST)
DescDate(x, first) == IF IsNull(x) THEN <<1, 0, first>> ELSE <<0, 0 - DateOrd(x.v), first>>

\* LIMIT n
Limit(rows, n) == SubSeq(rows, 1, IF Len(rows) < n THEN Len(rows) ELSE n)

AndNotNull == <<" ", "AND", " ", "ONUProducto", " ", "IS", " ", "NOT", " ", "NULL">>

\* kpis = con.execute(kpi_query).df()
kpis(T, q) ==
    IF ~q.ok THEN QueryError(q)
    ELSE [status |-> "ok",
          rows |-> <<[total_adjudicadores |-> CountDistinct(T, q.rows, "ProveedorRUT"),
                      total_ordenes |-> CountStar(q.rows),
                      monto_total |-> SumMonto(T, q.rows)]>>]

kpi_query(T, where_sql) == kpis(T, Select(T, where_sql))

\* regiones_activas = con.execute(regiones_activas_query).df()
regiones_activas(T, q) ==
    IF ~q.ok THEN QueryError(q)
    ELSE [status |-> "ok",
          rows |-> <<[regiones |-> CountDistinct(T, q.rows, "RegionProveedor")]>>]

regiones_activas_query(T, where_sql) == regiones_activas(T, Select(T, where_sql))

\* df_esp = con.execute(top_especialidades_query).df()
df_esp(T, q) ==
    IF ~q.ok THEN QueryError(q)
    ELSE [status |-> "ok",
          rows |-> Limit(WithoutOrd(SortRows(
                     {[ord |-> DescCount(CountStar(g.rows), FirstRow(g.rows)),
                       especialidad |-> g.key,
                       cantidad |-> CountStar(g.rows)] :
                          g \in Groups(q.rows, ColumnOf(T, q.rows, "ONUProducto"))})), 10)]

top_especialidades_query(T, where_sql) ==
    df_esp(T, Select(T, where_sql \o AndNotNull))

\* df_monto = con.execute(monto_region_query).df()
df_monto(T, q) ==
    IF ~q.ok THEN QueryError(q)
    ELSE [status |-> "ok",
          rows |-> Limit(WithoutOrd(SortRows(
                     {[ord |-> DescNum(SumMonto(T, g.rows), FirstRow(g.rows)),
                       region |-> g.key,
                       monto |-> SumMonto(T, g.rows)] :
                          g \in Groups(q.rows, ColumnOf(T, q.rows, "RegionProveedor"))})), 10)]

monto_region_query(T, where_sql) == df_monto(T, Select(T, where_sql))

\* df_tend = con.execute(tendencia_query).df()
df_tend(T, q) ==
    IF ~q.ok THEN QueryError(q)
    ELSE [status |-> "ok",
          rows |-> WithoutOrd(SortRows(
                     {[ord |-> AscDate(g.key, FirstRow(g.rows)),
                       mes |-> g.key,
                       ordenes |-> CountStar(g.rows),
                       proveedores |-> CountDistinct(T, g.rows, "ProveedorRUT")] :
                          g \in Groups(q.rows, MesOf(T, q.rows))}))]

tendencia_query(T, where_sql) == df_tend(T, Select(T, where_sql))

\* df_adj_reg = con.execute(adj_region_query).df()
df_adj_reg(T, q) ==
    IF ~q.ok THEN QueryError(q)
    ELSE [status |-> "ok",
          rows |-> WithoutOrd(SortRows(
                     {[ord |-> DescCount(CountDistinct(T, g.rows, "ProveedorRUT"),
                                         FirstRow(g.rows)),
                       region |-> g.key,
                       adjudicadores |-> CountDistinct(T, g.rows, "ProveedorRUT"),
                       ordenes |-> CountStar(g.rows)] :
                          g \in Groups(q.rows, ColumnOf(T, q.rows, "RegionProveedor"))}))]

adj_region_query(T, where_sql) == df_adj_reg(T, Select(T, where_sql))

\* df_comp_reg = con.execute(compras_region_query).df()
df_comp_reg(T, q) ==
    IF ~q.ok THEN QueryError(q)
    ELSE [status |-> "ok",
          rows |-> WithoutOrd(SortRows(
                     {[ord |-> DescCount(CountStar(g.rows), FirstRow(g.rows)),
                       region |-> g.key,
                       ordenes |-> CountStar(g.rows),
                       monto_total |-> SumMonto(T, g.rows)] :
                          g \in Groups(q.rows, ColumnOf(T, q.rows, "RegionUnidadCompra"))}))]

compras_region_query(T, where_sql) == df_comp_reg(T, Select(T, where_sql))

\* a variant that cuts the share after the first decimal where rounding is due
participacion_truncada(ordenes, total) == (ordenes * 1000) \div total

\* round(1) of ordenes / total * 100, in tenths of a percent; a value half
\* way between two tenths goes to the even one
participacion(ordenes, total) ==
    LET n == ordenes * 1000
        lo == n \div total
        r2 == 2 * (n % total)
    IN  IF r2 < total THEN lo
        ELSE IF r2 > total THEN lo + 1
        ELSE IF lo % 2 = 0 THEN lo ELSE lo + 1

RECURSIVE SumField(_, _)
\* df[name].sum()
SumField(rows, name) ==
    IF rows = <<>> THEN 0 ELSE Head(rows)[name] + SumField(Tail(rows), name)

\* the participacion column pandas adds to a result that is not empty
WithParticipacion(df) ==
    [n \in 1..Len(df) |->
        [especialidad |-> df[n].especialidad,
         ordenes |-> df[n].ordenes,
         proveedores |-> df[n].proveedores,
         monto_total |-> df[n].monto_total,
         monto_promedio |-> df[n].monto_promedio,
         participacion |-> participacion(df[n].ordenes, SumField(df, "ordenes"))]]

\* df_esp_completo = con.execute(especialidades_completo_query).df()
df_esp_completo(T, q) ==
    IF ~q.ok THEN QueryError(q)
    ELSE [status |-> "ok",
          rows |-> WithParticipacion(WithoutOrd(SortRows(
                     {[ord |-> DescCount(CountStar(g.rows), FirstRow(g.rows)),
                       especialidad |-> g.key,
                       ordenes |-> CountStar(g.rows),
                       proveedores |-> CountDistinct(T, g.rows, "ProveedorRUT"),
                       monto_total |-> SumMonto(T, g.rows),
                       monto_promedio |-> AvgMonto(T, g.rows)] :
                          g \in Groups(q.rows, ColumnOf(T, q.rows, "ONUProducto"))})))]

especialidades_completo_query(T, where_sql) ==
    df_esp_completo(T, Select(T, where_sql \o AndNotNull))

\* df_detalle = con.execute(detalle_query).df(); row is the position of the
\* record in the table
df_detalle(T, q, limit) ==
    IF ~q.ok THEN QueryError(q)
    ELSE [status |-> "ok",
          rows |-> Limit(WithoutOrd(SortRows(
                     {[ord |-> DescDate(T[i].FechaEnvioOC_parsed, i),
                       row |-> i,
                       codigoOC |-> T[i].codigoOC,
                       Fecha |-> T[i].FechaEnvioOC_parsed,
                       Proveedor |-> T[i].Proveedor,
                       ProveedorRUT |-> T[i].ProveedorRUT,
                       RegionProveedor |-> T[i].RegionProveedor,
                       RegionUnidadCompra |-> T[i].RegionUnidadCompra,
                       Especialidad |-> T[i].ONUProducto,
                       Rubro |-> T[i].RubroN1,
                       Monto_CLP |-> Monto(T, i)] : i \in q.rows})), limit)]

detalle_query(T, where_sql, limit) == df_detalle(T, Select(T, where_sql), limit)

(***************************************************************************)
(* The script                                                              *)
(***************************************************************************)
Todas == <<"T","o","d","a","s">>

REGIONES_CHILE == <<
    <<"A","r","i","c","a"," ","y"," ","P","a","r","i","n","a","c","o","t","a">>,
    <<"T","a","r","a","p","a","c","á">>,
    <<"A","n","t","o","f","a","g","a","s","t","a">>,
    <<"A","t","a","c","a","m","a">>,
    <<"C","o","q","u","i","m","b","o">>,
    <<"V","a","l","p","a","r","a","í","s","o">>,
    <<"M","e","t","r","o","p","o","l","i","t","a","n","a"," ","d","e"," ",
      "S","a","n","t","i","a","g","o">>,
    <<"L","i","b","e","r","t","a","d","o","r"," ","G","r","a","l","."," ",
      "B","e","r","n","a","r","d","o"," ","O","'","H","i","g","g","i","n","s">>,
    <<"M","a","u","l","e">>,
    <<"Ñ","u","b","l","e">>,
    <<"B","i","o","b","í","o">>,
    <<"L","a"," ","A","r","a","u","c","a","n","í","a">>,
    <<"L","o","s"," ","R","í","o","s">>,
    <<"L","o","s"," ","L","a","g","o","s">>,
    <<"A","y","s","é","n"," ","d","e","l"," ","G","r","a","l","."," ",
      "C","a","r","l","o","s"," ","I","b","á","ñ","e","z"," ","d","e","l"," ",
      "C","a","m","p","o">>,
    <<"M","a","g","a","l","l","a","n","e","s"," ","y"," ","d","e"," ","l","a"," ",
      "A","n","t","á","r","t","i","c","a"," ","C","h","i","l","e","n","a">> >>

\* region_proveedor_options, region_compra_options
region_options == {Todas} \cup {REGIONES_CHILE[i] : i \in 1..Len(REGIONES_CHILE)}

\* st.secrets.get("GENERAL", {}).get("APP_PASSWORD", "salud2025")
DefaultPassword == <<"s","a","l","u","d","2","0","2","5">>
secret_pwd(secrets) ==
    IF secrets.configured THEN secrets.APP_PASSWORD ELSE DefaultPassword

\* the values the sidebar widgets and the slider have before they are touched
DefaultWidgets ==
    [solo_salud |-> TRUE,
     fecha_inicio |-> <<2025, 1, 1>>,
     fecha_fin |-> <<2025, 12, 31>>,
     region_proveedor |-> Todas,
     region_compra |-> Todas,
     especialidad_selected |-> Todas,
     search_term |-> <<>>,
     limit |-> 1000]

\* the options of the "Especialidad/Servicio" selectbox (especialidades_query)
especialidades(T) ==
    {Todas} \cup {T[i].ONUProducto.v : i \in {j \in 1..Len(T) : ~IsNull(T[j].ONUProducto)}}

HealthClause ==
    <<"(", "LOWER", "(", "RubroN1", ")", " ", "LIKE", " ",
      "'", "%", "s","a","l","u","d", "%", "'", " ", "OR", " ",
      "LOWER", "(", "RubroN1", ")", " ", "LIKE", " ",
      "'", "%", "m","é","d","i","c","o", "%", "'", ")">>

FechaInicioClause(d) ==
    <<"FechaEnvioOC_parsed", " ", ">", "=", " ", "DATE", " ", "'">> \o FormatDate(d) \o <<"'">>

FechaFinClause(d) ==
    <<"FechaEnvioOC_parsed", " ", "<", "=", " ", "DATE", " ", "'">> \o FormatDate(d) \o <<"'">>

RegionProveedorClause(r) == <<"RegionProveedor", " ", "=", " ", "'">> \o r \o <<"'">>

RegionCompraClause(r) == <<"RegionUnidadCompra", " ", "=", " ", "'">> \o r \o <<"'">>

EspecialidadClause(e) == <<"ONUProducto", " ", "=", " ", "'">> \o e \o <<"'">>

SearchClause(term) ==
    <<"(", "LOWER", "(", "Proveedor", ")", " ", "LIKE", " ", "'", "%">> \o Lower(term)
    \o <<"%", "'", " ", "OR", " ", "ProveedorRUT", " ", "LIKE", " ", "'", "%">> \o term
    \o <<"%", "'", ")">>

\* the list where_clauses the script appends to, in its order
where_clauses(w) ==
    (IF w.solo_salud THEN <<HealthClause>> ELSE <<>>)
    \o <<FechaInicioClause(w.fecha_inicio), FechaFinClause(w.fecha_fin)>>
    \o (IF w.region_proveedor # Todas
        THEN <<RegionProveedorClause(w.region_proveedor)>> ELSE <<>>)
    \o (IF w.region_compra # Todas
        THEN <<RegionCompraClause(w.region_compra)>> ELSE <<>>)
    \o (IF w.especialidad_selected # Todas
        THEN <<EspecialidadClause(w.especialidad_selected)>> ELSE <<>>)
    \o (IF w.search_term # <<>> THEN <<SearchClause(w.search_term)>> ELSE <<>>)

RECURSIVE Join(_, _)
\* sep.join(parts)
Join(sep, parts) ==
    IF parts = <<>> THEN <<>>
    ELSE IF Len(parts) = 1 THEN parts[1]
    ELSE parts[1] \o sep \o Join(sep, Tail(parts))

\* where_sql = " AND ".join(where_clauses)
where_sql(clauses) == Join(<<" ", "AND", " ">>, clauses)

\* the queries in the order the script runs them
ViewOrder == <<"kpi", "regiones_activas", "top_especialidades", "monto_region",
               "tendencia", "adj_region", "compras_region",
               "especialidades_completo", "detalle">>
Views == {ViewOrder[i] : i \in 1..Len(ViewOrder)}
ViewIndex(v) == CHOOSE i \in 1..Len(ViewOrder) : ViewOrder[i] = v

\* a variant in which the Record Listing query is written without the filter
ViewWhereUnfiltered(v, sql) == IF v = "detalle" THEN <<"1", "=", "1">> ELSE sql

\* the text each query's f-string puts after WHERE: the one where_sql of the run
ViewWhere(v, sql) == sql

RunView(v, T, sql, limit) ==
    CASE v = "kpi" -> kpi_query(T, ViewWhere(v, sql))
      [] v = "regiones_activas" -> regiones_activas_query(T, ViewWhere(v, sql))
      [] v = "top_especialidades" -> top_especialidades_query(T, ViewWhere(v, sql))
      [] v = "monto_region" -> monto_region_query(T, ViewWhere(v, sql))
      [] v = "tendencia" -> tendencia_query(T, ViewWhere(v, sql))
      [] v = "adj_region" -> adj_region_query(T, ViewWhere(v, sql))
      [] v = "compras_region" -> compras_region_query(T, ViewWhere(v, sql))
      [] v = "especialidades_completo" ->
            especialidades_completo_query(T, ViewWhere(v, sql))
      [] v = "detalle" -> detalle_query(T, ViewWhere(v, sql), limit)

Skipped == [status |-> "skipped"]

RECURSIVE RunFrom(_, _, _, _, _)
\* the results of the queries from the i-th on, in script order, after those in
\* done.  con.execute(...) raises on a query the engine rejects; the exception
\* is not caught, so the run ends there and the queries after it are not executed
RunFrom(i, T, sql, limit, done) ==
    IF i > Len(ViewOrder) THEN done
    ELSE IF done # <<>> /\ done[Len(done)].status # "ok"
    THEN RunFrom(i + 1, T, sql, limit, Append(done, Skipped))
    ELSE RunFrom(i + 1, T, sql, limit, Append(done, RunView(ViewOrder[i], T, sql, limit)))

ByView(all) ==
    [kpi |-> all[1], regiones_activas |-> all[2], top_especialidades |-> all[3],
     monto_region |-> all[4], tendencia |-> all[5], adj_region |-> all[6],
     compras_region |-> all[7], especialidades_completo |-> all[8],
     detalle |-> all[9]]

RunViews(T, sql, limit) == ByView(RunFrom(1, T, sql, limit, <<>>))

\* what one run of the script did; every field is present on every page
BlankPage ==
    [screen |-> "login",        \* login, rerun, load_error, dashboard, exception
     started_authenticated |-> FALSE,
     denied |-> FALSE,          \* st.error("Acceso Denegado")
     load_called |-> FALSE,     \* load_data_from_r2() was called (cached or not)
     downloaded |-> FALSE,      \* its body ran: get_object and the table build
     error_shown |-> FALSE,     \* st.error("Error al cargar datos desde R2")
     sidebar |-> FALSE,         \* the filter controls were built
     slider |-> FALSE,          \* the "registros a mostrar" slider was built
     compiled |-> 0,            \* how many times where_sql was built
     where_clauses |-> <<>>,
     where_sql |-> <<>>,
     used |-> [v \in Views |-> <<>>],
     views |-> [v \in Views |-> Skipped],
     sections |-> <<>>]          \* what each section of the page shows

EmptyCache == [state |-> "empty"]

\* load_data_from_r2(): any exception of the body becomes (None, str(e))
load_data_from_r2(r2) ==
    IF r2.ok THEN [state |-> "ok", con |-> LoadTable(r2.csv)]
    ELSE [state |-> "error", error |-> r2.cause]

\* a variant that takes any code that is not empty for the secret
check_password_any(pc, pwd, secrets) ==
    IF pc THEN [result |-> TRUE, password_correct |-> TRUE, rerun |-> FALSE, denied |-> FALSE]
    ELSE IF pwd # <<>>
         THEN [result |-> FALSE, password_correct |-> TRUE, rerun |-> TRUE, denied |-> FALSE]
         ELSE [result |-> FALSE, password_correct |-> FALSE, rerun |-> FALSE,
               denied |-> FALSE]

\* @st.cache_data(ttl=3600) around load_data_from_r2(): an entry that is there
\* is returned and the body does not run; otherwise the body runs and what it
\* returns is pickled into the entry.  (None, str(e)) always pickles; pk tells
\* whether (con, None) does, and when it does not the call raises
\* UnserializableReturnValueError and nothing is stored.
cache_data(cch, r2, pk) ==
    IF cch.state # "empty" THEN cch
    ELSE IF r2.ok /\ ~pk THEN [state |-> "raised"]
    ELSE load_data_from_r2(r2)

\* check_password() up to its return or st.rerun()
check_password(pc, pwd, secrets) ==
    IF pc THEN [result |-> TRUE, password_correct |-> TRUE, rerun |-> FALSE, denied |-> FALSE]
    ELSE IF pwd # <<>>
         THEN IF pwd = secret_pwd(secrets)
              THEN [result |-> FALSE, password_correct |-> TRUE, rerun |-> TRUE,
                    denied |-> FALSE]
              ELSE [result |-> FALSE, password_correct |-> FALSE, rerun |-> FALSE,
                    denied |-> TRUE]
         ELSE [result |-> FALSE, password_correct |-> FALSE, rerun |-> FALSE,
               denied |-> FALSE]

\* monto_miles_millones = kpis['monto_total'] / 1_000_000_000 if kpis['monto_total']
\* else 0, on the SUM the engine returned: .df() turns a NULL of a DOUBLE column
\* into NaN, NaN is true in a condition and NaN / 1_000_000_000 is NaN; 0.0 is
\* false.  The scale is left out: the amount stays in pesos.
monto_miles_millones(monto_total) ==
    IF IsNull(monto_total) THEN [t |-> "nan"]
    ELSE IF monto_total.v = 0 THEN Num(0)
    ELSE monto_total

\* "if not df.empty: <chart or table> else: st.info(...)" on the result of a
\* query; a query the run did not reach shows nothing
Section(df) ==
    IF df.status # "ok" THEN "none"
    ELSE IF df.rows = <<>> THEN "no_data" ELSE "data"

\* what the page shows: the four st.metric values, then one entry per section
Rendered(res) ==
    [total_adjudicadores |->
        IF res.kpi.status = "ok" THEN res.kpi.rows[1].total_adjudicadores ELSE "none",
     total_ordenes |->
        IF res.kpi.status = "ok" THEN res.kpi.rows[1].total_ordenes ELSE "none",
     monto_total |->
        IF res.kpi.status = "ok" THEN monto_miles_millones(res.kpi.rows[1].monto_total)
        ELSE "none",
     regiones_activas |->
        IF res.regiones_activas.status = "ok" THEN res.regiones_activas.rows[1].regiones
        ELSE "none",
     top_especialidades |-> Section(res.top_especialidades),
     monto_region |-> Section(res.monto_region),
     tendencia |-> Section(res.tendencia),
     adj_region |-> Section(res.adj_region),
     compras_region |-> Section(res.compras_region),
     especialidades_completo |-> Section(res.especialidades_completo),
     detalle |-> Section(res.detalle)]

\* the page of a run that reached the tabs: res holds what the queries gave
Tabs(cch, c2, w2, clauses, sql, res) ==
    [password_correct |-> TRUE,
     pwd_input |-> <<>>,
     cache |-> c2,
     widgets |-> IF res.detalle.status # "skipped" THEN w2
                 ELSE [w2 EXCEPT !.limit = DefaultWidgets.limit],
     page |-> [BlankPage EXCEPT
                 !.screen = IF \E v \in Views : res[v].status = "error"
                            THEN "exception" ELSE "dashboard",
                 !.started_authenticated = TRUE,
                 !.load_called = TRUE,
                 !.downloaded = (cch.state = "empty"),
                 !.sidebar = TRUE,
                 !.slider = (res.detalle.status # "skipped"),
                 !.compiled = 1,
                 !.where_clauses = clauses,
                 !.where_sql = sql,
                 !.used = [v \in Views |->
                             IF res[v].status = "skipped" THEN <<>>
                             ELSE ViewWhere(v, sql)],
                 !.views = res,
                 !.sections = Rendered(res)]]

\* the filter compilation: where_clauses, then where_sql, then the queries
Compile(cch, c2, w2, clauses, sql) ==
    Tabs(cch, c2, w2, clauses, sql, RunViews(c2.con, sql, w2.limit))

\* the sidebar, built from the widget values w2 the run sees
Sidebar(cch, c2, w2) ==
    Compile(cch, c2, w2, where_clauses(w2), where_sql(where_clauses(w2)))

\* a variant without the st.stop() of the error branch: the error is shown and
\* the sidebar is built all the same
LoadedNoStop(cch, c2, w) ==
    IF c2.state = "error"
    THEN [password_correct |-> TRUE,
          pwd_input |-> <<>>,
          cache |-> c2,
          widgets |-> DefaultWidgets,
          page |-> [BlankPage EXCEPT
                      !.screen = "load_error",
                      !.started_authenticated = TRUE,
                      !.load_called = TRUE,
                      !.downloaded = (cch.state = "empty"),
                      !.error_shown = TRUE,
                      !.sidebar = TRUE]]
    ELSE Sidebar(cch, c2,
                 [w EXCEPT !.especialidad_selected =
                               IF @ \in especialidades(c2.con) THEN @ ELSE Todas])

\* con, error = load_data_from_r2() and the "if con is None:" that follows; a
\* selectbox whose value is no longer among its options falls back to 'Todas'
Loaded(cch, c2, w) ==
    IF c2.state = "error"
    THEN [password_correct |-> TRUE,
          pwd_input |-> <<>>,
          cache |-> c2,
          widgets |-> DefaultWidgets,
          page |-> [BlankPage EXCEPT
                      !.screen = "load_error",
                      !.started_authenticated = TRUE,
                      !.load_called = TRUE,
                      !.downloaded = (cch.state = "empty"),
                      !.error_shown = TRUE]]
    ELSE Sidebar(cch, c2,
                 [w EXCEPT !.especialidad_selected =
                               IF @ \in especialidades(c2.con) THEN @ ELSE Todas])

\* "if not check_password(): st.stop()" and what follows it
Gate(gate, pwd, cch, r2, pk, w) ==
    IF ~gate.result
    THEN [password_correct |-> gate.password_correct,
          pwd_input |-> pwd,
          cache |-> cch,
          widgets |-> DefaultWidgets,
          page |-> [BlankPage EXCEPT
                      !.screen = IF gate.rerun THEN "rerun" ELSE "login",
                      !.denied = gate.denied]]
    ELSE IF cache_data(cch, r2, pk).state = "raised"
    THEN [password_correct |-> TRUE,
          pwd_input |-> <<>>,
          cache |-> cch,
          widgets |-> DefaultWidgets,
          page |-> [BlankPage EXCEPT
                      !.screen = "exception",
                      !.started_authenticated = TRUE,
                      !.load_called = TRUE,
                      !.downloaded = TRUE]]
    ELSE Loaded(cch, cache_data(cch, r2, pk), w)

\* One run of the script, top to bottom, from the session state pc, the widget
\* values pwd and w, the configuration secrets, the cache entry cch, the
\* bucket r2 and pk.  A widget the run does not build loses its value.  An
\* exception nothing catches ends the run and the page shows it.
RunScript(pc, pwd, secrets, cch, r2, pk, w) ==
    Gate(check_password(pc, pwd, secrets), pwd, cch, r2, pk, w)

(***************************************************************************)
(* Inputs: the bucket's file, the configuration, what a user types         *)
(***************************************************************************)
Maule == REGIONES_CHILE[9]
OHiggins == REGIONES_CHILE[8]

CsvRow(oc, fecha, prov, rut, rp, rc, onu, rubro, monto) ==
    [codigoOC |-> oc, FechaEnvioOC |-> fecha, Proveedor |-> prov, ProveedorRUT |-> rut,
     RegionProveedor |-> rp, RegionUnidadCompra |-> rc, ONUProducto |-> onu,
     RubroN1 |-> rubro, MontoTotalOC_CLP |-> monto]

Salud == <<"S","a","l","u","d">>
EquipoMedico == <<"E","q","u","i","p","o"," ","M","é","d","i","c","o">>
Aseo == <<"A","s","e","o">>

\* rows a file may hold: dates on both default bounds, a date that is no date,
\* an amount that is no number, empty (NULL) regions and category, a row
\* outside the health sector, a row before the default range
RowPool ==
    << CsvRow(<<"1">>, FormatDate(<<2025, 1, 1>>), <<"A","b">>, <<"1","-","9">>,
              Maule, Maule, <<"X">>, Salud, <<"1","0","0">>),
       CsvRow(<<"2">>, FormatDate(<<2025, 12, 31>>), <<"C","d">>, <<"2","-","K">>,
              OHiggins, Maule, <<"Y">>, EquipoMedico, <<"n","/","a">>),
       CsvRow(<<"3">>, <<"s","/","f">>, <<"A","b">>, <<"1","-","9">>,
              Maule, OHiggins, <<"X">>, Salud, <<"4","0">>),
       CsvRow(<<"4">>, FormatDate(<<2025, 3, 20>>), <<"E","f">>, <<"3","-","5">>,
              <<>>, <<>>, <<>>, Salud, <<"7">>),
       CsvRow(<<"5">>, FormatDate(<<2025, 5, 5>>), <<"G","h">>, <<"4","-","4">>,
              Maule, OHiggins, <<"Y">>, Aseo, <<"9","0","0">>),
       CsvRow(<<"6">>, FormatDate(<<2024, 12, 31>>), <<"C","d">>, <<"2","-","K">>,
              OHiggins, OHiggins, <<"X">>, Salud, <<"5">>) >>

Fixture == RowPool

RECURSIVE Pick(_, _)
\* the rows of the pool whose positions are in S, in pool order
Pick(S, i) ==
    IF i > Len(RowPool) THEN <<>>
    ELSE (IF i \in S THEN <<RowPool[i]>> ELSE <<>>) \o Pick(S, i + 1)

DataSets == {Pick(S, 1) : S \in SUBSET (1..Len(RowPool))}

\* a file of n categories, category k holding counts[k] health-sector rows
\* dated inside the default range
MaxCats == 6
MaxCount == 2

CatName(k) == <<"c", DigitChars[k + 1]>>

RECURSIVE CatRows(_, _, _)
CatRows(counts, k, j) ==
    IF k > Len(counts) THEN <<>>
    ELSE IF j > counts[k] THEN CatRows(counts, k + 1, 1)
    ELSE <<CsvRow(<<DigitChars[k + 1], DigitChars[j + 1]>>, FormatDate(<<2025, 2, 1>>),
                  <<"A","b">>, <<"1","-","9">>, Maule, Maule, CatName(k), Salud,
                  <<"1","0">>)>>
         \o CatRows(counts, k, j + 1)

\* counts in non-increasing order: the grouping does not depend on row order
CountVectors ==
    UNION {{c \in [1..n -> 1..MaxCount] : \A k \in 1..(n - 1) : c[k] >= c[k + 1]}
           : n \in 1..MaxCats}

CatDataSets == {CatRows(c, 1, 1) : c \in CountVectors}

NoSecrets == [configured |-> FALSE, APP_PASSWORD |-> <<>>]
WithSecret == [configured |-> TRUE, APP_PASSWORD |-> <<"k","9">>]
Secrets == {NoSecrets, WithSecret}

Passwords == {<<>>, <<"x">>, DefaultPassword, WithSecret.APP_PASSWORD}

BucketOk(csv) == [ok |-> TRUE, csv |-> csv, cause |-> "none"]
BucketFails(cause) == [ok |-> FALSE, csv |-> <<>>, cause |-> cause]
Causes == {"TransportError", "MalformedSource", "EngineError"}

FechaInicioValues == {<<2025, 1, 1>>, <<2025, 7, 1>>}
FechaFinValues == {<<2025, 12, 31>>, <<2025, 6, 30>>}
Injection == <<"'", ")", " ", "O","R", " ", "1", "=", "1", " ", "-", "-">>
SpecExample == <<"'", " ", "O","R", " ", "1", "=", "1", " ", "-", "-">>
PlainTerms == {<<"a","b">>, <<"K">>, <<" ">>}
SearchTerms == {<<>>, Injection, SpecExample} \cup PlainTerms
LimitValues == {100, 1000}

(***************************************************************************)
(* State                                                                   *)
(***************************************************************************)
VARIABLES
    secrets,            \* st.secrets
    r2,                 \* what get_object and read_csv_auto will give
    picklable,          \* whether pickle.dumps takes the DuckDB connection
    password_correct,   \* st.session_state.password_correct
    pwd_input,          \* the "Código de Acceso" text input
    cache,              \* the st.cache_data entry of load_data_from_r2
    widgets,            \* the values of the sidebar widgets and the slider
    page                \* what the last run of the script did

vars == <<secrets, r2, picklable, password_correct, pwd_input, cache, widgets, page>>

\* a run of the script with the widget values pwd and w
Shown(res) ==
    /\ password_correct' = res.password_correct
    /\ pwd_input' = res.pwd_input
    /\ cache' = res.cache
    /\ widgets' = res.widgets
    /\ page' = res.page
    /\ UNCHANGED <<secrets, r2, picklable>>

Run(pwd, w) == Shown(RunScript(password_correct, pwd, secrets, cache, r2, picklable, w))

\* a new session: nothing in the session state, nothing cached, the login page.
\* duckdb's connection class defines no pickle support, which makes FALSE the
\* value of picklable with the duckdb releases; TRUE is the case the rest of the
\* script is written for.
Init ==
    /\ secrets \in Secrets
    /\ r2 \in {BucketOk(Fixture)} \cup {BucketFails(c) : c \in Causes}
    /\ picklable \in BOOLEAN
    /\ password_correct = FALSE
    /\ pwd_input = <<>>
    /\ cache = EmptyCache
    /\ widgets = DefaultWidgets
    /\ page = BlankPage

\* the user types an access code
EnterPassword(p) ==
    /\ page.screen = "login"
    /\ p # pwd_input
    /\ Run(p, widgets)

\* st.rerun(), or the user asking for a rerun: the script runs again with the
\* widget values as they are
Rerun == Run(pwd_input, widgets)

\* ttl=3600: the entry is dropped once its hour has passed.  The hour is not
\* counted: its end may come between any two runs.
Expire ==
    /\ cache.state # "empty"
    /\ cache' = EmptyCache
    /\ UNCHANGED <<secrets, r2, picklable, password_correct, pwd_input, widgets, page>>

Interactive == page.sidebar /\ page.screen # "rerun"

ToggleSoloSalud ==
    /\ Interactive
    /\ Run(pwd_input, [widgets EXCEPT !.solo_salud = ~@])

SetFechaInicio(d) ==
    /\ Interactive
    /\ d # widgets.fecha_inicio
    /\ Run(pwd_input, [widgets EXCEPT !.fecha_inicio = d])

SetFechaFin(d) ==
    /\ Interactive
    /\ d # widgets.fecha_fin
    /\ Run(pwd_input, [widgets EXCEPT !.fecha_fin = d])

SelectRegionProveedor(r) ==
    /\ Interactive
    /\ r \in region_options
    /\ r # widgets.region_proveedor
    /\ Run(pwd_input, [widgets EXCEPT !.region_proveedor = r])

SelectRegionCompra(r) ==
    /\ Interactive
    /\ r \in region_options
    /\ r # widgets.region_compra
    /\ Run(pwd_input, [widgets EXCEPT !.region_compra = r])

\* the options are those on the page, which the last run built from the table
SelectEspecialidad(e) ==
    /\ Interactive
    /\ e \in especialidades(LoadTable(r2.csv))
    /\ e # widgets.especialidad_selected
    /\ Run(pwd_input, [widgets EXCEPT !.especialidad_selected = e])

SetSearchTerm(t) ==
    /\ Interactive
    /\ t # widgets.search_term
    /\ Run(pwd_input, [widgets EXCEPT !.search_term = t])

SetLimit(n) ==
    /\ Interactive
    /\ page.slider
    /\ n # widgets.limit
    /\ Run(pwd_input, [widgets EXCEPT !.limit = n])

Next ==
    \/ \E p \in Passwords : EnterPassword(p)
    \/ Rerun
    \/ Expire
    \/ ToggleSoloSalud
    \/ \E d \in FechaInicioValues : SetFechaInicio(d)
    \/ \E d \in FechaFinValues : SetFechaFin(d)
    \/ \E r \in {Todas, OHiggins} : SelectRegionProveedor(r)
    \/ \E r \in {Todas, Maule} : SelectRegionCompra(r)
    \/ \E e \in {Todas, <<"X">>} : SelectEspecialidad(e)
    \/ \E t \in {<<>>, Injection} : SetSearchTerm(t)
    \/ \E n \in LimitValues : SetLimit(n)

Spec == Init /\ [][Next]_vars

(***************************************************************************)
(* The query pipeline on bounded inputs: an authenticated session with the *)
(* file loaded, shown after the run that follows the last widget change.   *)
(***************************************************************************)
FilterStates ==
    {[solo_salud |-> s, fecha_inicio |-> fi, fecha_fin |-> ff, region_proveedor |-> rp,
      region_compra |-> rc, especialidad_selected |-> e, search_term |-> t,
      limit |-> 1000] :
        s \in BOOLEAN, fi \in FechaInicioValues, ff \in FechaFinValues,
        rp \in {Todas, Maule}, rc \in {Todas, Maule},
        e \in {Todas, <<"X">>}, t \in SearchTerms}

RegionStates ==
    {[DefaultWidgets EXCEPT !.region_proveedor = rp, !.region_compra = rc] :
        rp \in region_options, rc \in region_options}

DataFilterStates ==
    {DefaultWidgets,
     [DefaultWidgets EXCEPT !.solo_salud = FALSE],
     [DefaultWidgets EXCEPT !.solo_salud = FALSE, !.search_term = Injection],
     [DefaultWidgets EXCEPT !.region_proveedor = Maule, !.fecha_fin = <<2025, 6, 30>>]}

Inputs ==
    {[csv |-> Fixture, w |-> w] : w \in FilterStates \cup RegionStates}
    \cup {[csv |-> d, w |-> w] : d \in DataSets, w \in DataFilterStates}
    \cup {[csv |-> d, w |-> DefaultWidgets] : d \in CatDataSets}

\* an authenticated session whose cache holds the file (the case in which the
\* connection pickles), before the run that shows the dashboard for the widget
\* values
InitConsulta ==
    \E in \in Inputs :
        /\ secrets = NoSecrets
        /\ r2 = BucketOk(in.csv)
        /\ picklable = TRUE
        /\ password_correct = TRUE
        /\ pwd_input = <<>>
        /\ cache = load_data_from_r2(BucketOk(in.csv))
        /\ widgets = in.w
        /\ page = BlankPage

NextConsulta == Rerun

SpecConsulta == InitConsulta /\ [][NextConsulta]_vars
(***************************************************************************)
(* Properties                                                              *)
(***************************************************************************)
Abs(x) == IF x < 0 THEN 0 - x ELSE x

\* the table of the session, and the results of the last run
Table == cache.con
View(v) == page.views[v]
Executed(v) == page.views[v].status # "skipped"
AllViewsOk == \A v \in Views : page.views[v].status = "ok"

\* the table rows the Record Listing shows
Listed == {View("detalle").rows[n].row : n \in 1..Len(View("detalle").rows)}

\* the rows the predicate compiled from the widget values w selects
Filtered(w) == Select(Table, where_sql(where_clauses(w)))

\* row i satisfies every clause of the list, each clause taken on its own
PassesAll(i, clauses) ==
    \A k \in 1..Len(clauses) :
        ParseWhere(clauses[k]).ok /\ Passes(ParseWhere(clauses[k]).e, Table[i])

ClauseSet == {page.where_clauses[k] : k \in 1..Len(page.where_clauses)}

\* t occurs in s
Contains(s, t) ==
    \E i \in 0..(Len(s) - Len(t)) : SubSeq(s, i + 1, i + Len(t)) = t

\* C1: in every run that reaches the filters the predicate is compiled once,
\* from the widget values of the run, and every query the run executes filters
\* with that one text: the row counts of the KPI Summary, the Monthly Trend and
\* both region breakdowns, and the rows of the Record Listing, are those of
\* the rows that predicate selects (counted on the table while the cache
\* still holds it).
C1_OnePredicatePerRun ==
    /\ page.compiled <= 1
    /\ page.sidebar =>
        /\ page.compiled = 1
        /\ page.where_sql = where_sql(where_clauses(widgets))
        /\ \A v \in Views : Executed(v) => page.used[v] = page.where_sql
        /\ (AllViewsOk /\ cache.state = "ok") =>
            /\ Filtered(widgets).ok
            /\ View("kpi").rows[1].total_ordenes = Cardinality(Filtered(widgets).rows)
            /\ SumField(View("tendencia").rows, "ordenes")
                 = Cardinality(Filtered(widgets).rows)
            /\ SumField(View("adj_region").rows, "ordenes")
                 = Cardinality(Filtered(widgets).rows)
            /\ SumField(View("compras_region").rows, "ordenes")
                 = Cardinality(Filtered(widgets).rows)
            /\ SumField(View("especialidades_completo").rows, "ordenes")
                 <= Cardinality(Filtered(widgets).rows)
            /\ Listed = Filtered(widgets).rows

\* C1 witness: a run with a region, a category and a date filter set in which
\* all nine queries ran and the listing is not empty
C1_Witness ==
    /\ page.screen = "dashboard"
    /\ AllViewsOk
    /\ widgets.region_compra = Maule
    /\ widgets.especialidad_selected = <<"X">>
    /\ Listed # {}

\* C2: when load_data_from_r2 fails, whatever the cause, the run shows the
\* error and stops: no filter control, no slider, no compiled predicate, no
\* query; and a run that calls the load on a failing bucket shows the error.
C2_LoadFailureHalts ==
    /\ (page.load_called /\ ~r2.ok) => page.error_shown
    /\ page.error_shown =>
        /\ page.screen = "load_error"
        /\ ~page.sidebar
        /\ ~page.slider
        /\ page.compiled = 0
        /\ page.where_clauses = <<>>
        /\ \A v \in Views : ~Executed(v) /\ page.used[v] = <<>>

\* C2 witness: the error page of a run whose download failed on a malformed file
C2_Witness ==
    /\ page.error_shown
    /\ page.downloaded
    /\ cache.state = "error"
    /\ cache.error = "MalformedSource"

\* C3: a run calls the load or executes a query only if password_correct was
\* TRUE when it started; password_correct goes from FALSE to TRUE only in a run
\* whose entered code is not empty and equals the configured secret (the
\* default one when none is configured); once TRUE it stays TRUE.
C3_PasswordGate ==
    [][/\ (page'.load_called \/ \E v \in Views : page'.views[v].status # "skipped")
            => password_correct
       /\ (~password_correct /\ password_correct')
            => /\ pwd_input' # <<>>
               /\ pwd_input' = IF secrets.configured THEN secrets.APP_PASSWORD
                               ELSE DefaultPassword
       /\ password_correct => password_correct']_vars

\* C3 witness: the dashboard of a session that entered the configured secret
C3_Witness ==
    /\ secrets.configured
    /\ password_correct
    /\ page.screen = "dashboard"
    /\ page.load_called

\* the supplier name (case folded) or the supplier tax id of the row holds term
MatchesTerm(i, term) ==
    \/ ~IsNull(Table[i].Proveedor) /\ Contains(Lower(Table[i].Proveedor.v), Lower(term))
    \/ ~IsNull(Table[i].ProveedorRUT) /\ Contains(Table[i].ProveedorRUT.v, term)

\* C4: with a search term typed, whatever its characters, every query runs and
\* the rows shown are those that satisfy the predicate of the other filters
\* and hold the term, as typed, in the supplier name or the supplier tax id.
C4_SearchTermIsLiteral ==
    (page.compiled = 1 /\ widgets.search_term # <<>>) =>
        /\ AllViewsOk
        /\ Filtered([widgets EXCEPT !.search_term = <<>>]).ok
        /\ Listed = {i \in Filtered([widgets EXCEPT !.search_term = <<>>]).rows :
                        MatchesTerm(i, widgets.search_term)}
        /\ View("kpi").rows[1].total_ordenes = Cardinality(Listed)

\* the clause "col = 'region'" as the engine reads it
IsEqualityOn(clause, col, region) ==
    /\ ParseWhere(clause).ok
    /\ ParseWhere(clause).e = [k |-> "cmp", op |-> "=",
                               a |-> [k |-> "col", name |-> <<col>>],
                               b |-> [k |-> "lit", val |-> Str(region)]]

MentionsColumn(clause, col) == \E n \in 1..Len(clause) : clause[n] = col

\* C5: a region selected as supplier region or as purchase region gives one
\* clause that is the equality of the column with that region, every query
\* then runs, and the rows shown are those of that region among the rows the
\* other filters select; 'Todas' gives no clause on the column.
C5_RegionEquality ==
    (page.compiled = 1 /\ widgets.search_term = <<>>) =>
        /\ IF widgets.region_proveedor = Todas
           THEN \A c \in ClauseSet : ~MentionsColumn(c, "RegionProveedor")
           ELSE \E c \in ClauseSet :
                    IsEqualityOn(c, "RegionProveedor", widgets.region_proveedor)
        /\ IF widgets.region_compra = Todas
           THEN \A c \in ClauseSet : ~MentionsColumn(c, "RegionUnidadCompra")
           ELSE \E c \in ClauseSet :
                    IsEqualityOn(c, "RegionUnidadCompra", widgets.region_compra)
        /\ AllViewsOk
        /\ Listed =
             {i \in Filtered([widgets EXCEPT !.region_proveedor = Todas,
                                             !.region_compra = Todas]).rows :
                /\ widgets.region_proveedor # Todas
                     => Table[i].RegionProveedor = Str(widgets.region_proveedor)
                /\ widgets.region_compra # Todas
                     => Table[i].RegionUnidadCompra = Str(widgets.region_compra)}

NoNullKey(v, field) ==
    \A n \in 1..Len(View(v).rows) : ~IsNull(View(v).rows[n][field])

\* C6: rows whose grouping key is NULL give no group in the grouped views
\* (category in Top Categories and Category Detail, supplier region in Region
\* Amount Distribution and Supplier-Region Breakdown, purchase region in
\* Purchase-Region Breakdown) and are counted in the KPI Summary row count.
C6_NullKeysGiveNoGroup ==
    (page.screen = "dashboard" /\ widgets.search_term = <<>>) =>
        /\ NoNullKey("top_especialidades", "especialidad")
        /\ NoNullKey("especialidades_completo", "especialidad")
        /\ NoNullKey("monto_region", "region")
        /\ NoNullKey("adj_region", "region")
        /\ NoNullKey("compras_region", "region")
        /\ View("kpi").rows[1].total_ordenes = Cardinality(Filtered(widgets).rows)

\* the shares of the Category Detail, in tenths of a percent
Shares == View("especialidades_completo").rows
ShareSum == SumField(Shares, "participacion")
HasShares == page.compiled = 1 /\ View("especialidades_completo").status = "ok"
                /\ Shares # <<>>

\* C7 as stated: the shares of a Category Detail that is not empty sum to a
\* value between 99.9 and 100.1.
C7_ShareSumWithinOneTenth ==
    HasShares => (999 <= ShareSum /\ ShareSum <= 1001)

\* C7 amended: every share is within 0.05 of the exact percentage of its
\* category, so the shares of n categories sum to a value within 0.05 * n of 100.
C7_ShareSumWithinHalfTenthPerCategory ==
    HasShares =>
        /\ \A n \in 1..Len(Shares) :
              2 * Abs(Shares[n].participacion * SumField(Shares, "ordenes")
                      - Shares[n].ordenes * 1000) <= SumField(Shares, "ordenes")
        /\ 2 * Abs(ShareSum - 1000) <= Len(Shares)

\* C7 witness: a Category Detail of three categories whose shares do not sum
\* to 100.0
C7_Witness ==
    /\ HasShares
    /\ Len(Shares) = 3
    /\ ShareSum # 1000

DateClauses(w) == {FechaInicioClause(w.fecha_inicio), FechaFinClause(w.fecha_fin)}
NotDateClause(c) == c \notin DateClauses(widgets)

\* C8: a send date that is no date gives a NULL parsed date and the load
\* succeeds; such a row, when it satisfies every clause other than the date
\* bounds, is in the Record Listing and in the KPI Summary row count.
C8_NullDateRowRemains ==
    (page.screen = "dashboard" /\ widgets.search_term = <<>>) =>
        /\ cache.state = "ok"
        /\ \A i \in 1..Len(Table) :
              IsNull(ParseDate(r2.csv[i].FechaEnvioOC))
                  => IsNull(Table[i].FechaEnvioOC_parsed)
        /\ \A i \in 1..Len(Table) :
              (/\ IsNull(Table[i].FechaEnvioOC_parsed)
               /\ PassesAll(i, SelectSeq(page.where_clauses, NotDateClause)))
                  => i \in Listed
        /\ View("kpi").rows[1].total_ordenes = Cardinality(Listed)

NonEmptyAfterTrim(term) == \E n \in 1..Len(term) : term[n] # " "

Unconstrained(w) ==
    /\ ~w.solo_salud
    /\ w.region_proveedor = Todas
    /\ w.region_compra = Todas
    /\ w.especialidad_selected = Todas
    /\ ~NonEmptyAfterTrim(w.search_term)

InRange(x, w) ==
    /\ ~IsNull(x)
    /\ DateLeq(w.fecha_inicio, x.v)
    /\ DateLeq(x.v, w.fecha_fin)

\* C9: an optional clause is among the compiled clauses exactly when its
\* filter is active (the search clause: when the term is not empty after
\* trimming); both date bounds always are; with every other filter
\* unconstrained the rows selected are those whose parsed date is in range.
C9_ClauseIffActive ==
    page.compiled = 1 =>
        /\ (HealthClause \in ClauseSet) <=> widgets.solo_salud
        /\ (\E c \in ClauseSet : MentionsColumn(c, "RegionProveedor"))
              <=> (widgets.region_proveedor # Todas)
        /\ (\E c \in ClauseSet : MentionsColumn(c, "RegionUnidadCompra"))
              <=> (widgets.region_compra # Todas)
        /\ (\E c \in ClauseSet : MentionsColumn(c, "ONUProducto"))
              <=> (widgets.especialidad_selected # Todas)
        /\ (\E c \in ClauseSet : MentionsColumn(c, "ProveedorRUT"))
              <=> NonEmptyAfterTrim(widgets.search_term)
        /\ DateClauses(widgets) \subseteq ClauseSet
        /\ Unconstrained(widgets) =>
              /\ AllViewsOk
              /\ Listed = {i \in 1..Len(Table) :
                              InRange(Table[i].FechaEnvioOC_parsed, widgets)}

\* an amount that is there and is no number
BadAmount(i) ==
    ~IsNull(Table[i].MontoTotalOC_CLP) /\ ~AllDigits(Table[i].MontoTotalOC_CLP.v)
GoodAmount(i) ==
    ~IsNull(Table[i].MontoTotalOC_CLP) /\ AllDigits(Table[i].MontoTotalOC_CLP.v)

RECURSIVE AmountSum(_)
\* the sum of the amounts of rows whose amount is a number
AmountSum(S) ==
    IF S = {} THEN 0
    ELSE DecVal(Table[FirstRow(S)].MontoTotalOC_CLP.v) + AmountSum(S \ {FirstRow(S)})

\* the sum and the average of a group when the rows with a bad amount are left out
SumWithoutBad(S) ==
    IF \A i \in S : ~GoodAmount(i) THEN Null
    ELSE Num(AmountSum({i \in S : GoodAmount(i)}))
AvgWithoutBad(S) ==
    IF \A i \in S : ~GoodAmount(i) THEN Null
    ELSE [t |-> "avg", num |-> AmountSum({i \in S : GoodAmount(i)}),
          den |-> Cardinality({i \in S : GoodAmount(i)})]

Keyed(col, key) == {i \in Filtered(widgets).rows : Table[i][col] = key}
InMonth(mes) ==
    {i \in Filtered(widgets).rows : DateTruncMonth(Table[i].FechaEnvioOC_parsed) = mes}

\* C10: a row whose amount is no number raises no error; it is counted in the
\* row counts of the KPI Summary, the Purchase-Region Breakdown, the Category
\* Detail and the Monthly Trend, whose sums and averages of amount are those
\* of the other rows.
C10_BadAmountCountsAddsNothing ==
    (page.compiled = 1 /\ Filtered(widgets).ok) =>
        /\ AllViewsOk
        /\ View("kpi").rows[1].total_ordenes = Cardinality(Filtered(widgets).rows)
        /\ View("kpi").rows[1].monto_total = SumWithoutBad(Filtered(widgets).rows)
        /\ \A n \in 1..Len(View("compras_region").rows) :
              /\ View("compras_region").rows[n].ordenes
                   = Cardinality(Keyed("RegionUnidadCompra",
                                       View("compras_region").rows[n].region))
              /\ View("compras_region").rows[n].monto_total
                   = SumWithoutBad(Keyed("RegionUnidadCompra",
                                         View("compras_region").rows[n].region))
        /\ \A n \in 1..Len(Shares) :
              /\ Shares[n].ordenes = Cardinality(Keyed("ONUProducto", Shares[n].especialidad))
              /\ Shares[n].monto_total
                   = SumWithoutBad(Keyed("ONUProducto", Shares[n].especialidad))
              /\ Shares[n].monto_promedio
                   = AvgWithoutBad(Keyed("ONUProducto", Shares[n].especialidad))
        /\ \A n \in 1..Len(View("tendencia").rows) :
              View("tendencia").rows[n].ordenes
                 = Cardinality(InMonth(View("tendencia").rows[n].mes))
        /\ \A n \in 1..Len(View("monto_region").rows) :
              View("monto_region").rows[n].monto
                 = SumWithoutBad(Keyed("RegionProveedor", View("monto_region").rows[n].region))

\* C10 witness: a dashboard whose filtered rows hold a row with a bad amount
\* next to rows with good ones, one of them in the same purchase region
C10_Witness ==
    /\ page.screen = "dashboard"
    /\ \E i \in Filtered(widgets).rows :
          /\ BadAmount(i)
          /\ \E j \in Filtered(widgets).rows :
                /\ GoodAmount(j)
                /\ Table[j].RegionUnidadCompra = Table[i].RegionUnidadCompra

GroupedViews == {"top_especialidades", "monto_region", "tendencia", "adj_region",
                 "compras_region", "especialidades_completo", "detalle"}

\* C11: when the table is empty or the predicate selects no row, the run ends
\* without an error; every grouped view and the listing return no row and
\* their sections show the 'no data' notice; the KPI Summary and the Active
\* Regions return zero counts and no amount, and their metrics show zeros.
C11_NoRowsRendersNoData ==
    (page.compiled = 1 /\ Filtered(widgets).ok /\ Filtered(widgets).rows = {}) =>
        /\ page.screen = "dashboard"
        /\ AllViewsOk
        /\ \A v \in GroupedViews : View(v).rows = <<>> /\ page.sections[v] = "no_data"
        /\ View("kpi").rows[1] = [total_adjudicadores |-> 0, total_ordenes |-> 0,
                                  monto_total |-> Null]
        /\ View("regiones_activas").rows[1].regiones = 0
        /\ page.sections.total_adjudicadores = 0
        /\ page.sections.total_ordenes = 0
        /\ page.sections.regiones_activas = 0
        /\ page.sections.monto_total = Num(0)

\* the entry of the cache is dropped at the end of its window
WindowEnds == cache # EmptyCache /\ cache' = EmptyCache

\* C12: inside a window a run that finds the loaded table in the cache neither
\* downloads nor changes it and queries that very table, whatever the filters;
\* a run that finds no entry (the first of the session, or the first after the
\* window ended) downloads the file, builds the table and leaves it in the
\* cache for the runs that follow, so that it is built once per window.
C12_StoreBuiltOncePerWindow ==
    [][~WindowEnds =>
         /\ cache.state = "ok" =>
               /\ cache' = cache
               /\ ~page'.downloaded
               /\ page'.screen = "dashboard" =>
                     page'.views.kpi = kpi_query(cache.con, page'.where_sql)
         /\ (cache.state = "empty" /\ r2.ok /\ page'.load_called) =>
               /\ page'.downloaded
               /\ cache' = [state |-> "ok", con |-> LoadTable(r2.csv)]]_vars

=============================================================================
